---- MODULE Spec2Model ----
(***************************************************************************)
(* Model of scrolling_text.py: main() hides the cursor, then redraws a     *)
(* centred, colour-cycling logo above a circular scroller until an         *)
(* exception leaves the loop; the finally block restores the terminal.     *)
(* Strings are sequences of code points, so lengths, slices and padding    *)
(* are computed as Python computes them.                                   *)
(***************************************************************************)
EXTENDS Integers, Sequences, FiniteSets

VARIABLES pc, scroll_pos, color_index, term_width, term_height, queryFailed,
          buffer, logo_iter, out, flushed, exc, ticks

vars == << pc, scroll_pos, color_index, term_width, term_height, queryFailed,
           buffer, logo_iter, out, flushed, exc, ticks >>

(* ---- bounds of the model ---------------------------------------------- *)

\* number of loop iterations explored when every write may be cut short
MaxTicks == 2

\* number of loop iterations explored on a buffered stdout; larger than
\* len(scrolltext) so that the scroll offset wraps
MaxScrollTicks == 487

\* largest terminal width and height among the sizes explored
MaxWidth == 1000

MaxHeight == 40

\* terminal sizes os.get_terminal_size() may report, <<columns, lines>>: a
\* sample of the sizes up to MaxWidth x MaxHeight, with the empty terminal,
\* sizes below, at and above the logo's width and height, the common 80x24
\* and 120x40, and a terminal wider than the scroll text
Viewports ==
  { <<0, 0>>, <<1, 7>>, <<43, 25>>, <<44, 6>>, <<45, 9>>, <<80, 24>>,
    <<81, 10>>, <<120, MaxHeight>>, <<MaxWidth, 8>> }

(* ---- program constants ------------------------------------------------ *)

SP == 32

NL == 10

logo ==
  << << 32, 32, 9608, 9608, 9608, 9608, 9608, 9608, 9559, 32, 9608, 9608, 9608, 9608, 9608, 9608, 9608, 9559, 9608, 9608, 9608, 9559, 32, 32, 32, 9608, 9608, 9608, 9559, 9608, 9608, 9559, 9608, 9608, 9608, 9559, 32, 32, 32, 9608, 9608, 9559, 32 >>,
     << 32, 9608, 9608, 9556, 9552, 9552, 9552, 9552, 9565, 32, 9608, 9608, 9556, 9552, 9552, 9552, 9552, 9565, 9608, 9608, 9608, 9608, 9559, 32, 9608, 9608, 9608, 9608, 9553, 9608, 9608, 9553, 9608, 9608, 9608, 9608, 9559, 32, 32, 9608, 9608, 9553, 32 >>,
     << 32, 9608, 9608, 9553, 32, 32, 9608, 9608, 9608, 9559, 9608, 9608, 9608, 9608, 9608, 9559, 32, 32, 9608, 9608, 9556, 9608, 9608, 9608, 9608, 9556, 9608, 9608, 9553, 9608, 9608, 9553, 9608, 9608, 9556, 9608, 9608, 9559, 32, 9608, 9608, 9553, 32 >>,
     << 32, 9608, 9608, 9553, 32, 32, 32, 9608, 9608, 9553, 9608, 9608, 9556, 9552, 9552, 9565, 32, 32, 9608, 9608, 9553, 9562, 9608, 9608, 9556, 9565, 9608, 9608, 9553, 9608, 9608, 9553, 9608, 9608, 9553, 9562, 9608, 9608, 9559, 9608, 9608, 9553, 32 >>,
     << 32, 9562, 9608, 9608, 9608, 9608, 9608, 9608, 9556, 9565, 9608, 9608, 9608, 9608, 9608, 9608, 9608, 9559, 9608, 9608, 9553, 32, 9562, 9552, 9565, 32, 9608, 9608, 9553, 9608, 9608, 9553, 9608, 9608, 9553, 32, 9562, 9608, 9608, 9608, 9608, 9553, 32 >>,
     << 32, 32, 9562, 9552, 9552, 9552, 9552, 9552, 9565, 32, 9562, 9552, 9552, 9552, 9552, 9552, 9552, 9565, 9562, 9552, 9565, 32, 32, 32, 32, 32, 9562, 9552, 9565, 9562, 9552, 9565, 9562, 9552, 9565, 32, 32, 9562, 9552, 9552, 9552, 9565, 32 >> >>

scrollmessage ==
  <<
    32, 32, 32, 42, 42, 42, 32, 71, 82, 69, 69, 84, 73, 78, 71, 83,
    32, 70, 82, 79, 77, 32, 71, 69, 77, 73, 78, 73, 33, 32, 84, 72,
    73, 83, 32, 73, 83, 32, 65, 32, 80, 89, 84, 72, 79, 78, 32, 65,
    83, 67, 73, 73, 32, 68, 69, 77, 79, 32, 73, 78, 83, 80, 73, 82,
    69, 68, 32, 66, 89, 32, 84, 72, 69, 32, 67, 76, 65, 83, 83, 73,
    67, 32, 65, 77, 73, 71, 65, 32, 83, 67, 69, 78, 69, 32, 79, 70,
    32, 84, 72, 69, 32, 76, 65, 84, 69, 32, 56, 48, 83, 32, 65, 78,
    68, 32, 69, 65, 82, 76, 89, 32, 57, 48, 83, 46, 32, 75, 69, 69,
    80, 32, 84, 72, 69, 32, 79, 76, 68, 32, 83, 67, 72, 79, 79, 76,
    32, 83, 80, 73, 82, 73, 84, 32, 65, 76, 73, 86, 69, 33, 32, 42,
    42, 42 >>

scrolltext == scrollmessage \o scrollmessage \o scrollmessage

logo_width == Len(logo[1])

logo_height == Len(logo)

\* colors[...]: ESC [ <n> m
reset == << 27, 91, 48, 109 >>

bold == << 27, 91, 49, 109 >>

red == << 27, 91, 57, 49, 109 >>

green == << 27, 91, 57, 50, 109 >>

yellow == << 27, 91, 57, 51, 109 >>

magenta == << 27, 91, 57, 53, 109 >>

cyan == << 27, 91, 57, 54, 109 >>

color_cycle == << cyan, magenta, yellow, green, red >>

\* "\033[H"
HOME == << 27, 91, 72 >>

FallbackWidth == 80

FallbackHeight == 24

(* ---- Python string primitives ----------------------------------------- *)

\* c * n for a one-character string c: empty when n <= 0
StrMul(c, n) == IF n <= 0 THEN << >> ELSE [i \in 1..n |-> c]

\* s[a:b] for 0 <= a <= b: the slice stops at the end of s
Slice(s, a, b) == SubSeq(s, a + 1, IF b < Len(s) THEN b ELSE Len(s))

\* ljust that forgets to pad
ljust_NoPad(s, width) == s

\* s.ljust(width): right-pad with spaces, never truncate
ljust(s, width) == IF Len(s) >= width THEN s ELSE s \o StrMul(SP, width - Len(s))

(* ---- frame composition (lines 90-129) --------------------------------- *)

top_padding(h) == (h - logo_height - 2) \div 2

\* centring that rounds the half up instead of down
left_padding_str_RoundUp(w) == StrMul(SP, (w - logo_width + 1) \div 2)

left_padding_str(w) == StrMul(SP, (w - logo_width) \div 2)

\* fill that forgets the scroller's own row
fill_lines_OffByOne(h) == h - top_padding(h) - logo_height

fill_lines(h) == h - top_padding(h) - logo_height - 1

scroller_view(pos, w) == Slice(scrolltext \o Slice(scrolltext, 0, w), pos, pos + w)

\* line 105
current_color(ci) == color_cycle[ci + 1]

\* lines 109-112: logo line i (0-based) with its padding, colour and reset
LogoLine(i, w, ci) == left_padding_str(w) \o current_color(ci) \o logo[i + 1] \o reset \o << NL >>

\* lines 125-129
ScrollerLine(pos, w) == bold \o yellow \o ljust(scroller_view(pos, w), w) \o reset

(* ---- control positions ------------------------------------------------ *)

ComposePcs == { "clear", "home", "top", "logo", "fill", "scroller" }

TryPcs == { "hide", "hide_flush", "size", "write", "flush",
            "adv_color", "adv_scroll", "sleep" } \cup ComposePcs

LoopPcs == TryPcs \ { "hide", "hide_flush" }

IoPcs == { "hide", "hide_flush", "write", "flush" }

FinallyPcs == { "fin_show", "fin_reset", "fin_flush" }

Init ==
  /\ pc = "hide"
  /\ scroll_pos = 0
  /\ color_index = 0
  /\ term_width = 0
  /\ term_height = 0
  /\ queryFailed = FALSE
  /\ buffer = << >>
  /\ logo_iter = 0
  /\ out = << >>
  /\ flushed = 0
  /\ exc = "none"
  /\ ticks = 0

(* ---- the try block ---------------------------------------------------- *)

\* line 70
HideCursor ==
  /\ pc = "hide"
  /\ out' = Append(out, "hide")
  /\ pc' = "hide_flush"
  /\ UNCHANGED << scroll_pos, color_index, term_width, term_height, queryFailed,
                  buffer, logo_iter, flushed, exc, ticks >>

\* line 71
FlushHide ==
  /\ pc = "hide_flush"
  /\ flushed' = Len(out)
  /\ pc' = "size"
  /\ UNCHANGED << scroll_pos, color_index, term_width, term_height, queryFailed,
                  buffer, logo_iter, out, exc, ticks >>

\* a query whose OSError is not caught: it leaves the try block
GetTerminalSize_Uncaught ==
  /\ pc = "size"
  /\ ticks < MaxTicks
  /\ \/ /\ \E v \in Viewports :
             /\ term_width' = v[1]
             /\ term_height' = v[2]
        /\ queryFailed' = FALSE
        /\ pc' = "clear"
        /\ exc' = exc
     \/ /\ queryFailed' = TRUE
        /\ pc' = "fin_show"
        /\ exc' = "Other"
        /\ UNCHANGED << term_width, term_height >>
  /\ UNCHANGED << scroll_pos, color_index, buffer, logo_iter, out, flushed, ticks >>

\* lines 79-85: the query succeeds with some size, or raises OSError and the
\* fallback is used; the loop is explored for limit iterations
QuerySize(limit) ==
  /\ pc = "size"
  /\ ticks < limit
  /\ \/ \E v \in Viewports :
          /\ term_width' = v[1]
          /\ term_height' = v[2]
          /\ queryFailed' = FALSE
     \/ /\ term_width' = FallbackWidth
        /\ term_height' = FallbackHeight
        /\ queryFailed' = TRUE
  /\ pc' = "clear"
  /\ UNCHANGED << scroll_pos, color_index, buffer, logo_iter, out, flushed, exc, ticks >>

GetTerminalSize == QuerySize(MaxTicks)

GetTerminalSizeBuffered == QuerySize(MaxScrollTicks)

\* line 90
ClearBuffer ==
  /\ pc = "clear"
  /\ buffer' = << >>
  /\ pc' = "home"
  /\ UNCHANGED << scroll_pos, color_index, term_width, term_height, queryFailed,
                  logo_iter, out, flushed, exc, ticks >>

\* a frame that forgets to move the cursor home
CursorHome_Missing ==
  /\ pc = "home"
  /\ pc' = "top"
  /\ UNCHANGED << scroll_pos, color_index, term_width, term_height, queryFailed,
                  buffer, logo_iter, out, flushed, exc, ticks >>

\* line 93
CursorHome ==
  /\ pc = "home"
  /\ buffer' = buffer \o HOME
  /\ pc' = "top"
  /\ UNCHANGED << scroll_pos, color_index, term_width, term_height, queryFailed,
                  logo_iter, out, flushed, exc, ticks >>

\* lines 97-108: the paddings are computed, the top padding is appended and
\* the iteration over range(logo_height) starts
TopPadding ==
  /\ pc = "top"
  /\ buffer' = buffer \o (IF top_padding(term_height) > 0
                           THEN StrMul(NL, top_padding(term_height)) ELSE << >>)
  /\ logo_iter' = 0
  /\ pc' = "logo"
  /\ UNCHANGED << scroll_pos, color_index, term_width, term_height, queryFailed,
                  out, flushed, exc, ticks >>

\* lines 108-112: one iteration of the for loop; logo_iter is the index the
\* range iterator yields next
AppendLogoLine ==
  /\ pc = "logo"
  /\ buffer' = buffer \o LogoLine(logo_iter, term_width, color_index)
  /\ logo_iter' = logo_iter + 1
  /\ pc' = IF logo_iter + 1 < logo_height THEN "logo" ELSE "fill"
  /\ UNCHANGED << scroll_pos, color_index, term_width, term_height, queryFailed,
                  out, flushed, exc, ticks >>

\* lines 116-118
AppendFill ==
  /\ pc = "fill"
  /\ buffer' = buffer \o (IF fill_lines(term_height) > 0
                           THEN StrMul(NL, fill_lines(term_height)) ELSE << >>)
  /\ pc' = "scroller"
  /\ UNCHANGED << scroll_pos, color_index, term_width, term_height, queryFailed,
                  logo_iter, out, flushed, exc, ticks >>

\* lines 122-129
AppendScroller ==
  /\ pc = "scroller"
  /\ buffer' = buffer \o ScrollerLine(scroll_pos, term_width)
  /\ pc' = "write"
  /\ UNCHANGED << scroll_pos, color_index, term_width, term_height, queryFailed,
                  logo_iter, out, flushed, exc, ticks >>

\* line 134: the whole frame is written
WriteFrame ==
  /\ pc = "write"
  /\ out' = Append(out, "frame")
  /\ pc' = "flush"
  /\ UNCHANGED << scroll_pos, color_index, term_width, term_height, queryFailed,
                  buffer, logo_iter, flushed, exc, ticks >>

\* line 135
FlushFrame ==
  /\ pc = "flush"
  /\ flushed' = Len(out)
  /\ pc' = "adv_color"
  /\ UNCHANGED << scroll_pos, color_index, term_width, term_height, queryFailed,
                  buffer, logo_iter, out, exc, ticks >>

\* a palette rotation that wraps one entry early
AdvanceColor_ShortCycle ==
  /\ pc = "adv_color"
  /\ color_index' = (color_index + 1) % (Len(color_cycle) - 1)
  /\ pc' = "adv_scroll"
  /\ UNCHANGED << scroll_pos, term_width, term_height, queryFailed,
                  buffer, logo_iter, out, flushed, exc, ticks >>

\* line 139
AdvanceColor ==
  /\ pc = "adv_color"
  /\ color_index' = (color_index + 1) % Len(color_cycle)
  /\ pc' = "adv_scroll"
  /\ UNCHANGED << scroll_pos, term_width, term_height, queryFailed,
                  buffer, logo_iter, out, flushed, exc, ticks >>

\* a state update that wraps the offset at the length of one copy of the
\* message instead of the whole scroll text
AdvanceScroll_ShortWrap ==
  /\ pc = "adv_scroll"
  /\ scroll_pos' = (scroll_pos + 1) % Len(scrollmessage)
  /\ ticks' = ticks + 1
  /\ pc' = "sleep"
  /\ UNCHANGED << color_index, term_width, term_height, queryFailed, buffer,
                  logo_iter, out, flushed, exc >>

\* line 141; the tick's state update is complete here
AdvanceScroll ==
  /\ pc = "adv_scroll"
  /\ scroll_pos' = (scroll_pos + 1) % Len(scrolltext)
  /\ ticks' = ticks + 1
  /\ pc' = "sleep"
  /\ UNCHANGED << color_index, term_width, term_height, queryFailed,
                  buffer, logo_iter, out, flushed, exc >>

\* line 144; the iteration ends and with it the record of its query branch
Sleep ==
  /\ pc = "sleep"
  /\ queryFailed' = FALSE
  /\ pc' = "size"
  /\ UNCHANGED << scroll_pos, color_index, term_width, term_height,
                  buffer, logo_iter, out, flushed, exc, ticks >>

(* ---- leaving the try block -------------------------------------------- *)

\* Ctrl+C: KeyboardInterrupt is raised between any two instructions of the
\* try block and caught at line 146
Interrupt ==
  /\ pc \in TryPcs
  /\ exc' = "KeyboardInterrupt"
  /\ pc' = "handler"
  /\ UNCHANGED << scroll_pos, color_index, term_width, term_height, queryFailed,
                  buffer, logo_iter, out, flushed, ticks >>

\* a write or flush of sys.stdout raises (encoding or I/O error); no except
\* clause matches, control goes to the finally block
OutputError ==
  /\ pc \in IoPcs
  /\ exc' = "Other"
  /\ pc' = "fin_show"
  /\ UNCHANGED << scroll_pos, color_index, term_width, term_height, queryFailed,
                  buffer, logo_iter, out, flushed, ticks >>

\* what reaches the output when the write at a position delivers only a
\* non-empty proper prefix of its string
Prefix(at) ==
  CASE at = "hide" -> "hide_prefix"
    [] at = "write" -> "frame_prefix"
    [] at = "handler" -> "farewell_prefix"
    [] at = "fin_show" -> "show_prefix"
    [] at = "fin_reset" -> "reset_prefix"

\* the statement after the write at a position
After(at) ==
  CASE at = "hide" -> "hide_flush"
    [] at = "write" -> "flush"
    [] at = "handler" -> "handler_end"
    [] at = "handler_end" -> "fin_show"
    [] at = "fin_show" -> "fin_reset"
    [] at = "fin_reset" -> "fin_flush"

\* Ctrl+C while a write of the try block waits in the operating system: a
\* non-empty proper prefix has reached the output, the rest is dropped
InterruptedAt(at) ==
  /\ pc = at
  /\ out' = Append(out, Prefix(at))
  /\ exc' = "KeyboardInterrupt"
  /\ pc' = "handler"
  /\ UNCHANGED << scroll_pos, color_index, term_width, term_height, queryFailed,
                  buffer, logo_iter, flushed, ticks >>

\* line 134 cut by Ctrl+C
InterruptedWrite == InterruptedAt("write")

\* line 70 cut by Ctrl+C
InterruptedHide == InterruptedAt("hide")

\* a write of the try block fails with an I/O error (terminal hang-up, file
\* size limit) after a non-empty proper prefix has reached the output
FailedAt(at) ==
  /\ pc = at
  /\ out' = Append(out, Prefix(at))
  /\ exc' = "Other"
  /\ pc' = "fin_show"
  /\ UNCHANGED << scroll_pos, color_index, term_width, term_height, queryFailed,
                  buffer, logo_iter, flushed, ticks >>

\* line 134 cut by an I/O error
CutOutputError == FailedAt("write")

\* line 70 cut by an I/O error
CutHideError == FailedAt("hide")

\* a write on an unbuffered stdout returns short and raises nothing: only a
\* non-empty proper prefix was written, or (full non-blocking terminal)
\* nothing at all; the program goes on to its next statement
ShortWrite(at) ==
  /\ pc = at
  /\ \/ out' = Append(out, Prefix(at))
     \/ out' = out
  /\ pc' = After(at)
  /\ UNCHANGED << scroll_pos, color_index, term_width, term_height, queryFailed,
                  buffer, logo_iter, flushed, exc, ticks >>

\* line 70 returns short
CutHide == ShortWrite("hide")

\* line 134 returns short
CutWrite == ShortWrite("write")

\* line 148, the write of the farewell text returns short
CutFarewell == ShortWrite("handler")

\* line 148, the write of the one-character line end writes nothing
DropFarewellEnd ==
  /\ pc = "handler_end"
  /\ pc' = After("handler_end")
  /\ UNCHANGED << scroll_pos, color_index, term_width, term_height, queryFailed,
                  buffer, logo_iter, out, flushed, exc, ticks >>

\* line 154 returns short
CutShow == ShortWrite("fin_show")

\* line 156 returns short
CutReset == ShortWrite("fin_reset")

(* ---- except KeyboardInterrupt / finally ------------------------------- *)

\* line 148, first write of print: the farewell text
FarewellText ==
  /\ pc = "handler"
  /\ out' = Append(out, "farewell")
  /\ pc' = "handler_end"
  /\ UNCHANGED << scroll_pos, color_index, term_width, term_height, queryFailed,
                  buffer, logo_iter, flushed, exc, ticks >>

\* a handler that restores the cursor itself, before the finally block does
FarewellEnd_ShowsCursor ==
  /\ pc = "handler_end"
  /\ out' = out \o << "farewell_end", "show" >>
  /\ pc' = "fin_show"
  /\ UNCHANGED << scroll_pos, color_index, term_width, term_height, queryFailed,
                  buffer, logo_iter, flushed, exc, ticks >>

\* line 148, second write of print: the end newline
FarewellEnd ==
  /\ pc = "handler_end"
  /\ out' = Append(out, "farewell_end")
  /\ pc' = "fin_show"
  /\ UNCHANGED << scroll_pos, color_index, term_width, term_height, queryFailed,
                  buffer, logo_iter, flushed, exc, ticks >>

\* an exception inside the handler (an output error, a second Ctrl+C), before
\* or between the two writes of print: the finally block still runs
HandlerError ==
  /\ pc \in { "handler", "handler_end" }
  /\ pc' = "fin_show"
  /\ UNCHANGED << scroll_pos, color_index, term_width, term_height, queryFailed,
                  buffer, logo_iter, out, flushed, exc, ticks >>

\* the write of the farewell text raises after a prefix of it was written
CutHandlerError ==
  /\ pc = "handler"
  /\ out' = Append(out, Prefix(pc))
  /\ pc' = "fin_show"
  /\ UNCHANGED << scroll_pos, color_index, term_width, term_height, queryFailed,
                  buffer, logo_iter, flushed, exc, ticks >>

\* line 154
ShowCursor ==
  /\ pc = "fin_show"
  /\ out' = Append(out, "show")
  /\ pc' = "fin_reset"
  /\ UNCHANGED << scroll_pos, color_index, term_width, term_height, queryFailed,
                  buffer, logo_iter, flushed, exc, ticks >>

\* line 156
ResetStyle ==
  /\ pc = "fin_reset"
  /\ out' = Append(out, "reset")
  /\ pc' = "fin_flush"
  /\ UNCHANGED << scroll_pos, color_index, term_width, term_height, queryFailed,
                  buffer, logo_iter, flushed, exc, ticks >>

\* line 157
FinalFlush ==
  /\ pc = "fin_flush"
  /\ flushed' = Len(out)
  /\ pc' = "done"
  /\ UNCHANGED << scroll_pos, color_index, term_width, term_height, queryFailed,
                  buffer, logo_iter, out, exc, ticks >>

\* an exception inside the finally block leaves main() at once
FinallyError ==
  /\ pc \in FinallyPcs
  /\ pc' = "aborted"
  /\ UNCHANGED << scroll_pos, color_index, term_width, term_height, queryFailed,
                  buffer, logo_iter, out, flushed, exc, ticks >>

\* line 154 or line 156 raises after a prefix of its string was written
CutFinallyError ==
  /\ pc \in { "fin_show", "fin_reset" }
  /\ out' = Append(out, Prefix(pc))
  /\ pc' = "aborted"
  /\ UNCHANGED << scroll_pos, color_index, term_width, term_height, queryFailed,
                  buffer, logo_iter, flushed, exc, ticks >>

\* the steps of a run whose small writes are delivered whole or raise before
\* anything is written, and whose frame write is delivered whole or raises
Common ==
  \/ HideCursor
  \/ FlushHide
  \/ ClearBuffer
  \/ CursorHome
  \/ TopPadding
  \/ AppendLogoLine
  \/ AppendFill
  \/ AppendScroller
  \/ WriteFrame
  \/ FlushFrame
  \/ AdvanceColor
  \/ AdvanceScroll
  \/ Sleep
  \/ Interrupt
  \/ InterruptedWrite
  \/ OutputError
  \/ CutOutputError
  \/ FarewellText
  \/ FarewellEnd
  \/ HandlerError
  \/ ShowCursor
  \/ ResetStyle
  \/ FinalFlush
  \/ FinallyError

\* any stdout: every write may also return short without an exception, or
\* raise after a prefix
Next ==
  \/ Common
  \/ GetTerminalSize
  \/ CutHide
  \/ CutWrite
  \/ CutFarewell
  \/ DropFarewellEnd
  \/ CutShow
  \/ CutReset
  \/ InterruptedHide
  \/ CutHideError
  \/ CutHandlerError
  \/ CutFinallyError

Spec == Init /\ [][Next]_vars

\* stdout buffered, as by default: the small writes stay in the buffer and
\* the frame is delivered whole or ends in an exception; explored through the
\* wrap of the scroll offset
NextBuffered ==
  \/ Common
  \/ GetTerminalSizeBuffered

SpecBuffered == Init /\ [][NextBuffered]_vars

(* ---- reading a frame back, independently of how it was composed ------- *)

Max0(n) == IF n > 0 THEN n ELSE 0

ESC == 27

\* t occurs in s at position p
HasAt(s, p, t) ==
  /\ p >= 1
  /\ p + Len(t) - 1 <= Len(s)
  /\ SubSeq(s, p, p + Len(t) - 1) = t

\* first position at or after p where s does not hold c (Len(s) + 1 if none)
SkipRun(s, p, c) ==
  IF p < 1 \/ p > Len(s) THEN p
  ELSE CHOOSE q \in p..(Len(s) + 1) :
         /\ q = Len(s) + 1 \/ s[q] # c
         /\ \A r \in p..(q - 1) : s[r] = c

\* spaces in front of the colour code of the logo line starting at p
LinePad(s, p) == SkipRun(s, p, SP) - p

\* palette entries (1-based) whose code follows the padding of the line at p
LineColors(s, p) ==
  { k \in DOMAIN color_cycle : HasAt(s, p + LinePad(s, p), color_cycle[k]) }

\* position after logo line i starting at p: padding, colour, logo[i], reset,
\* newline; 0 when s does not hold that at p
LineEnd(s, p, i) ==
  LET q == p + LinePad(s, p)
      ks == { k \in DOMAIN color_cycle :
                HasAt(s, q, color_cycle[k] \o logo[i] \o reset \o << NL >>) }
  IN  IF p >= 1 /\ ks # { }
      THEN q + Len(color_cycle[CHOOSE k \in ks : TRUE]) + Len(logo[i]) + Len(reset) + 1
      ELSE 0

RECURSIVE LineStartsFrom(_, _)
\* acc holds the starts of the first Len(acc) logo lines; add the rest, and
\* last the position after the sixth line
LineStartsFrom(s, acc) ==
  IF Len(acc) = logo_height + 1 THEN acc
  ELSE LineStartsFrom(s, Append(acc, LineEnd(s, acc[Len(acc)], Len(acc))))

\* where each logo line starts: the first one after cursor-home and the
\* leading newlines, each later one where the line before it ends
LineStarts(s) == LineStartsFrom(s, << SkipRun(s, Len(HOME) + 1, NL) >>)

LineStart(s, i) == LineStarts(s)[i]

\* newlines between cursor-home and the first logo line
TopLines(s) == LineStart(s, 1) - (Len(HOME) + 1)

\* where the scroller's bold code is expected: after the logo and its fill
ScrollerStart(s) == SkipRun(s, LineStart(s, logo_height + 1), NL)

\* newlines between the last logo line and the scroller
FillLines(s) == ScrollerStart(s) - LineStart(s, logo_height + 1)

\* positions of the scroller text, between bold/yellow and the final reset
TextFirst(s) == ScrollerStart(s) + Len(bold) + Len(yellow)

TextLast(s) == Len(s) - Len(reset)

\* cursor-home, leading newlines, six coloured logo lines, fill newlines,
\* bold/yellow, text without control characters, reset, end of frame
FrameInOrder(s) ==
  LET starts == LineStarts(s)
      scr == SkipRun(s, starts[logo_height + 1], NL)
      first == scr + Len(bold) + Len(yellow)
      last == Len(s) - Len(reset)
  IN  /\ HasAt(s, 1, HOME)
      /\ \A i \in 2..(logo_height + 1) : starts[i] > 0
      /\ HasAt(s, scr, bold \o yellow)
      /\ first <= last + 1
      /\ HasAt(s, last + 1, reset)
      /\ \A j \in first..last : s[j] # ESC /\ s[j] # NL

NewlineCount(s) == Cardinality({ j \in DOMAIN s : s[j] = NL })

\* number of events e in the output
Count(e) == Cardinality({ j \in DOMAIN out : out[j] = e })

Last(s) == IF s = << >> THEN "start" ELSE s[Len(s)]

\* which event may directly follow which in the output of a run that emits
\* cursor-hide first and every string whole
FollowsOriginal ==
  { << "start", "hide" >>, << "hide", "frame" >>, << "frame", "frame" >>,
    << "hide", "farewell" >>, << "frame", "farewell" >>,
    << "farewell", "farewell_end" >>,
    << "hide", "show" >>, << "frame", "show" >>,
    << "farewell", "show" >>, << "farewell_end", "show" >>,
    << "show", "reset" >> }

\* the place of an output event in the order of a run: cursor-hide, frames,
\* farewell text, its line end, cursor-show, reset; a string written in part
\* has the place of the whole string
Stage(e) ==
  CASE e = "start" -> 0
    [] e \in { "hide", "hide_prefix" } -> 1
    [] e \in { "frame", "frame_prefix" } -> 2
    [] e \in { "farewell", "farewell_prefix" } -> 3
    [] e = "farewell_end" -> 4
    [] e \in { "show", "show_prefix" } -> 5
    [] e \in { "reset", "reset_prefix" } -> 6

\* number of output events of a stage
CountStage(n) == Cardinality({ j \in DOMAIN out : Stage(out[j]) = n })

\* main() has returned or been left by an exception
Terminated == pc \in { "done", "aborted" }

(* ---- C1 --------------------------------------------------------------- *)

\* C1 (as claimed): on every terminating execution of main(), cursor-show and
\* the final style-reset were each emitted exactly once, and cursor-show was
\* emitted only after cursor-hide had been emitted.
C1_ShowOnlyAfterHide ==
  Terminated =>
    /\ Count("show") = 1
    /\ Count("reset") = 1
    /\ \E i, j \in DOMAIN out : i < j /\ out[i] = "hide" /\ out[j] = "show"

\* C1 (amended): on every execution, cursor-show and the final style-reset
\* each reach the output at most once, whole or in part, and only once the
\* finally block runs; cursor-show is followed by nothing but the reset, the
\* reset by nothing; cursor-hide, if any of it was emitted, is the first
\* output; main() ends only after an exception left the try block.
C1_RestoreAtMostOnce ==
  /\ CountStage(5) <= 1
  /\ CountStage(6) <= 1
  /\ \A i \in DOMAIN out :
       /\ Stage(out[i]) = 1 => i = 1
       /\ Stage(out[i]) = 6 => i = Len(out)
       /\ Stage(out[i]) = 5 => (i = Len(out) \/ (i = Len(out) - 1 /\ Stage(out[Len(out)]) = 6))
  /\ Terminated => exc \in { "KeyboardInterrupt", "Other" }
  /\ pc \notin { "fin_flush", "done", "aborted" } => CountStage(6) = 0
  /\ pc \notin FinallyPcs \cup { "done", "aborted" } => CountStage(5) = 0

\* an interrupted run after frames, whose finally block ran to its end with
\* the reset written only in part: main() returns
C1_Witness ==
  /\ pc = "done"
  /\ exc = "KeyboardInterrupt"
  /\ Count("frame") >= 2
  /\ Count("show") = 1
  /\ Last(out) = "reset_prefix"

(* ---- C2 --------------------------------------------------------------- *)

\* C2: between the completion of tick N and the state update of tick N + 1,
\* scroll_pos = N mod len(scrolltext) and color_index = N mod len(color_cycle),
\* whatever viewports were seen; both counters always stay in range.
C2_ModularCounters ==
  /\ scroll_pos \in 0..(Len(scrolltext) - 1)
  /\ color_index \in 0..(Len(color_cycle) - 1)
  /\ pc \in { "sleep", "size", "write", "flush", "adv_color" } \cup ComposePcs =>
       /\ scroll_pos = ticks % Len(scrolltext)
       /\ color_index = ticks % Len(color_cycle)
  /\ (pc = "sleep" /\ ticks = Len(color_cycle)) =>
       color_cycle[color_index + 1] = color_cycle[1]

\* the scroll offset has wrapped to 0 after len(scrolltext) ticks, with a
\* palette index that is not 0
C2_Witness ==
  /\ pc = "sleep"
  /\ ticks = Len(scrolltext)
  /\ scroll_pos = 0
  /\ color_index = 1

(* ---- C3 --------------------------------------------------------------- *)

\* C3: for the offset and width of every frame, the window
\* (scrolltext + scrolltext[:W])[offset : offset + W] holds scrolltext[(offset + i) mod L]
\* at every position i in [0, W).
C3_CircularRead ==
  pc = "write" =>
    LET view == scroller_view(scroll_pos, term_width)
    IN  /\ Len(view) = term_width
        /\ \A i \in 0..(term_width - 1) :
             view[i + 1] = scrolltext[((scroll_pos + i) % Len(scrolltext)) + 1]

(* ---- C4 --------------------------------------------------------------- *)

\* C4: in every composed frame the text between the bold/yellow prefix and the
\* final reset has length exactly W.
C4_ScrollerWidth ==
  pc = "write" =>
    /\ HasAt(buffer, Len(buffer) - Len(reset) + 1, reset)
    /\ HasAt(buffer, Len(buffer) - Len(reset) - term_width - Len(bold \o yellow) + 1,
             bold \o yellow)
    /\ \A j \in (Len(buffer) - Len(reset) - term_width + 1)..(Len(buffer) - Len(reset)) :
         buffer[j] # ESC

\* a frame for a viewport wider than the window the slice can deliver
C4_Witness ==
  /\ pc = "write"
  /\ term_width > Len(scroller_view(scroll_pos, term_width))
  /\ buffer # << >>

(* ---- C5 --------------------------------------------------------------- *)

\* C5 (as claimed): cursor-hide is emitted exactly once and before any frame;
\* every frame is laid out home, logo, fill, scroller and is emitted whole;
\* farewell, cursor-show and reset follow in that order and no frame follows.
C5_HideExactlyOnce ==
  /\ [](pc = "write" => FrameInOrder(buffer))
  /\ [](Terminated => Count("hide") = 1)
  /\ [](Count("farewell") > 0 => exc = "KeyboardInterrupt")
  /\ [][out' # out => << Last(out), Last(out') >> \in FollowsOriginal]_vars

\* C5 (amended): what reaches the output is in the order cursor-hide, frames,
\* farewell text, its line end, cursor-show, reset, each string whole or
\* only a leading part of it and each but the frames at most once; any of
\* them may be missing; each frame is composed as home, top padding, six
\* coloured logo lines, fill, styled scroller and handed to one write; the
\* farewell is written only on the interrupt path; no frame follows the
\* farewell or cursor-show and nothing follows the reset.
C5_EventOrder ==
  /\ [](pc = "write" => FrameInOrder(buffer))
  /\ [](\A n \in { 1, 3, 4, 5, 6 } : CountStage(n) <= 1)
  /\ []((CountStage(3) > 0 \/ CountStage(4) > 0) => exc = "KeyboardInterrupt")
  /\ [][out' # out =>
          /\ Len(out') = Len(out) + 1
          /\ SubSeq(out', 1, Len(out)) = out
          /\ \/ Stage(Last(out)) < Stage(Last(out'))
             \/ Stage(Last(out)) = 2 /\ Stage(Last(out')) = 2
          /\ Stage(Last(out')) = 2 => (pc = "write" /\ FrameInOrder(buffer))]_vars

\* an interrupted run in which a frame was cut and another frame followed:
\* farewell, its line end, cursor-show and reset all written
C5_Witness ==
  /\ pc = "done"
  /\ out = << "hide", "frame_prefix", "frame", "farewell", "farewell_end",
              "show", "reset" >>

(* ---- C6 --------------------------------------------------------------- *)

\* C6: when the size query raises OSError the tick goes on to compose with
\* (80, 24), writes nothing and changes no counter at that step, renders an
\* 80x24 frame, and completes its state update as any other tick, the output
\* holding nothing but cursor-hide and at most one frame per tick.
C6_FallbackRecovered ==
  /\ []((queryFailed /\ pc \in LoopPcs) =>
          /\ term_width = 80
          /\ term_height = 24
          /\ exc = "none")
  /\ []((queryFailed /\ pc = "write") =>
          /\ FrameInOrder(buffer)
          /\ TopLines(buffer) = 8
          /\ FillLines(buffer) = 9
          /\ TextLast(buffer) - TextFirst(buffer) + 1 = 80)
  /\ []((queryFailed /\ pc = "sleep") =>
          /\ scroll_pos = ticks % Len(scrolltext)
          /\ color_index = ticks % Len(color_cycle)
          /\ Len(out) <= ticks + 1
          /\ \A j \in DOMAIN out :
               \/ j = 1 /\ Stage(out[j]) = 1
               \/ Stage(out[j]) = 2)
  /\ [][(~queryFailed /\ queryFailed') =>
          /\ pc = "size"
          /\ pc' = "clear"
          /\ out' = out
          /\ UNCHANGED << scroll_pos, color_index, ticks, exc, flushed >>]_vars

\* a tick whose query failed has completed its state update
C6_Witness ==
  /\ queryFailed
  /\ pc = "sleep"
  /\ ticks = 2

(* ---- C7 --------------------------------------------------------------- *)

\* C7: every composed frame has tp = max(0, floor((H - 6 - 2) / 2)) newlines
\* before the logo and max(0, H - tp - 6 - 1) newlines between the logo and
\* the scroller.
C7_VerticalLayout ==
  pc = "write" =>
    LET tp == Max0((term_height - 6 - 2) \div 2)
    IN  /\ FrameInOrder(buffer)
        /\ TopLines(buffer) = tp
        /\ FillLines(buffer) = Max0(term_height - tp - 6 - 1)

(* ---- C8 --------------------------------------------------------------- *)

\* C8 (as claimed): an interrupt takes the loop to the handler only from the
\* inter-frame sleep.
C8_SingleExitPoint ==
  [][(pc \in LoopPcs /\ pc' = "handler") => pc = "sleep"]_vars

\* C8 (amended): the loop is left only with an exception raised, from any of
\* its statements; when it has been left, scroll_pos is the number of
\* completed ticks mod len(scrolltext) and color_index is that number mod
\* len(color_cycle) or one ahead of it, never behind.
C8_ExitByExceptionOnly ==
  pc \notin TryPcs =>
    /\ exc # "none"
    /\ scroll_pos = ticks % Len(scrolltext)
    /\ color_index \in { ticks % Len(color_cycle), (ticks + 1) % Len(color_cycle) }

\* interrupted between the two counter updates: only the palette index moved
C8_Witness ==
  /\ pc = "handler"
  /\ exc = "KeyboardInterrupt"
  /\ ticks = 1
  /\ color_index = 2
  /\ scroll_pos = 1

(* ---- C9 --------------------------------------------------------------- *)

\* C9: for H >= logo_height + 2, every composed frame holds exactly H - 1
\* newlines, all of them before the scroller text.
C9_FrameFillsViewport ==
  (pc = "write" /\ term_height >= logo_height + 2) =>
    /\ NewlineCount(buffer) = term_height - 1
    /\ \A j \in (Len(buffer) - Len(reset) - term_width + 1)..Len(buffer) : buffer[j] # NL

\* a frame with top padding and fill, late in the scroll
C9_Witness ==
  /\ pc = "write"
  /\ term_height = 24
  /\ scroll_pos = 3
  /\ NewlineCount(buffer) = 23

(* ---- C10 -------------------------------------------------------------- *)

\* C10: in every composed frame each of the six logo lines is preceded by
\* exactly max(0, floor((W - logo_width) / 2)) spaces and by the colour the
\* palette index selects.
C10_LeftPadding ==
  pc = "write" =>
    LET starts == LineStarts(buffer)
    IN  \A i \in 1..logo_height :
          /\ starts[i + 1] > 0
          /\ LinePad(buffer, starts[i]) = Max0((term_width - Len(logo[1])) \div 2)
          /\ LineColors(buffer, starts[i]) = { color_index + 1 }

\* a viewport narrower than the logo: no padding
C10_Witness ==
  /\ pc = "write"
  /\ term_width < logo_width
  /\ term_width > 0
  /\ color_index = 3
  /\ LinePad(buffer, LineStart(buffer, 6)) = 0

====
